---- MODULE Spec2Model ----
(***************************************************************************)
(* A model of generate_requirements.txt.py: the import extractor           *)
(* (find_third_party_imports), the distribution resolver                   *)
(* (resolve_distribution), the scan driver (main, write_requirements),     *)
(* the duration formatter (format_duration_long) and the bootstrap wrapper *)
(* (bootstrap).                                                            *)
(*                                                                         *)
(* Text is a sequence of code points, so that partition("."), endswith,    *)
(* sorted() and the LF-terminated lines of the manifest are computed, not  *)
(* assumed.  All names used are ASCII, for which the UTF-8 encoding of the *)
(* manifest is one byte per code point.                                    *)
(***************************************************************************)
EXTENDS Integers, Sequences, FiniteSets, TLC

VARIABLES
    dir,              \* working directory: file name -> entry
    manifest,         \* requirements.txt: [exists, text]
    stdlib,           \* sys.stdlib_module_names
    import_to_dist,   \* importlib.metadata.packages_distributions()
    pc,               \* position of the process in bootstrap()/main()
    python_files,     \* main: the list built from os.listdir(".")
    scan_i,           \* main: index of the next file of the for loop
    non_std_modules,  \* main: the accumulating set
    exit_code,        \* bootstrap: exit_code
    handlers,         \* logger.handlers
    open_handlers,    \* handlers opened and not yet closed
    cause,            \* history: what ended the try block of this run
    manifest0,        \* history: the manifest when this run started
    repeat,           \* history: this run follows a completed run, nothing changed between
    settled,          \* history: the last run completed main() and nothing changed since
    prev_files,       \* history: python_files of the previous run
    probe             \* arguments and result of a pure function under test

vars == <<dir, manifest, stdlib, import_to_dist, pc, python_files, scan_i,
          non_std_modules, exit_code, handlers, open_handlers, cause,
          manifest0, repeat, settled, prev_files, probe>>

---------------------------------------------------------------------------
(* Bounds of the model *)

MaxFiles == 2      \* entries in the working directory
MaxCands == 2      \* candidates of one index entry (resolver inputs)
MaxNodes == 3      \* nodes below the Module node of a syntax tree
MaxDigit == 1      \* largest count of each unit in a duration

(* Program constants *)

Dot == 46          \* "."
LF == 10           \* "\n"
EXIT_INTERRUPT == 130
EXIT_FAILURE == 1
EXIT_SUCCESS == 0
MAX_PARTS == 2
NS_PER_S == 1000000000

---------------------------------------------------------------------------
(* Text literals, as code points *)

s_os == <<111, 115>>  \* "os"
s_sys == <<115, 121, 115>>  \* "sys"
s_os_path == <<111, 115, 46, 112, 97, 116, 104>>  \* "os.path"
s_yaml == <<121, 97, 109, 108>>  \* "yaml"
s_numpy == <<110, 117, 109, 112, 121>>  \* "numpy"
s_numpy_linalg == <<110, 117, 109, 112, 121, 46, 108, 105, 110, 97, 108, 103>>  \* "numpy.linalg"
s_a_b_c == <<97, 46, 98, 46, 99>>  \* "a.b.c"
s_a == <<97>>  \* "a"
s_PyYAML == <<80, 121, 89, 65, 77, 76>>  \* "PyYAML"
s_la == <<108, 97>>  \* "la"
s_x == <<120>>  \* "x"
s_zzz == <<122, 122, 122>>  \* "zzz"
f_a_py == <<97, 46, 112, 121>>  \* "a.py"
f_b_pyw == <<98, 46, 112, 121, 119>>  \* "b.pyw"
f_notes_txt == <<110, 111, 116, 101, 115, 46, 116, 120, 116>>  \* "notes.txt"
f_a_pyc == <<97, 46, 112, 121, 99>>  \* "a.pyc"
current_file == <<103, 101, 110, 101, 114, 97, 116, 101, 95, 114, 101, 113, 117, 105, 114, 101, 109, 101, 110, 116, 115, 46, 116, 120, 116, 46, 112, 121>>  \* "generate_requirements.txt.py"
excluded_pyw == <<103, 101, 110, 101, 114, 97, 116, 101, 95, 114, 101, 113, 117, 105, 114, 101, 109, 101, 110, 116, 115, 46, 116, 120, 116, 46, 112, 121, 119>>  \* "generate_requirements.txt.pyw"
suffix_py == <<46, 112, 121>>  \* ".py"
suffix_pyw == <<46, 112, 121, 119>>  \* ".pyw"

None == <<>>       \* Python's None where a str is expected (both are falsy)

---------------------------------------------------------------------------
(* str operations *)

\* s.endswith(suffix)
endswith(s, suffix) ==
    /\ Len(s) >= Len(suffix)
    /\ SubSeq(s, Len(s) - Len(suffix) + 1, Len(s)) = suffix

\* s.partition(sep)[0]: the part before the first occurrence of sep, s if none
partition_head(s, sep) ==
    IF \E i \in 1..Len(s) : s[i] = sep
    THEN LET i == CHOOSE j \in 1..Len(s) :
                      s[j] = sep /\ \A k \in 1..(j - 1) : s[k] # sep
         IN  SubSeq(s, 1, i - 1)
    ELSE s

\* a < b for str: code point by code point, a proper prefix is smaller
str_less(a, b) ==
    \E i \in 1..(Len(b)) :
        /\ \A k \in 1..(i - 1) : k <= Len(a) /\ a[k] = b[k]
        /\ \/ i = Len(a) + 1
           \/ i <= Len(a) /\ a[i] < b[i]

\* Mutant: the largest name first
RECURSIVE sorted_descending(_)
sorted_descending(S) ==
    IF S = {} THEN <<>>
    ELSE LET m == CHOOSE x \in S : \A y \in S \ {x} : str_less(y, x)
         IN  <<m>> \o sorted_descending(S \ {m})

\* Mutant: no sorting, the iteration order of the set, which follows the order
\* in which the files were listed
sorted_by_listing(S) ==
    LET up == CHOOSE q \in [1..Cardinality(S) -> S] :
                  \A i, j \in 1..Cardinality(S) : i < j => str_less(q[i], q[j])
    IN  IF python_files # <<>> /\ python_files[1] = f_a_py
        THEN up
        ELSE sorted_descending(S)

\* sorted(S) for a set of str
RECURSIVE sorted(_)
sorted(S) ==
    IF S = {} THEN <<>>
    ELSE LET m == CHOOSE x \in S : \A y \in S \ {x} : str_less(x, y)
         IN  <<m>> \o sorted(S \ {m})

---------------------------------------------------------------------------
(* resolve_distribution *)

\* import_to_dist.get(import_name): None (here <<>>) when the key is absent
dict_get(d, key) == IF key \in DOMAIN d THEN d[key] ELSE <<>>

\* Mutant: the last candidate instead of the first
resolve_distribution_last(import_name, index) ==
    LET dists == dict_get(index, import_name)
    IN  IF dists # <<>> /\ dists[1] # import_name
        THEN dists[Len(dists)]
        ELSE import_name

resolve_distribution(import_name, index) ==
    LET dists == dict_get(index, import_name)
    IN  IF dists # <<>> /\ dists[1] # import_name
        THEN dists[1]
        ELSE import_name

---------------------------------------------------------------------------
(* Syntax trees (the ast module): only the node types the walk tells apart *)

Alias(name, asname) == [type |-> "alias", name |-> name, asname |-> asname]
Import(names) == [type |-> "Import", names |-> names]
ImportFrom(module, names, level) ==
    [type |-> "ImportFrom", module |-> module, names |-> names, level |-> level]
Block(body) == [type |-> "If", body |-> body]
Pass == [type |-> "Pass"]
Module(body) == [type |-> "Module", body |-> body]

\* ast.iter_child_nodes(node)
iter_child_nodes(node) ==
    CASE node.type \in {"Module", "If"} -> node.body
      [] node.type \in {"Import", "ImportFrom"} -> node.names
      [] OTHER -> <<>>

\* ast.walk(node): breadth first, todo is the deque
RECURSIVE walk_todo(_)
walk_todo(todo) ==
    IF todo = <<>> THEN <<>>
    ELSE <<Head(todo)>> \o walk_todo(Tail(todo) \o iter_child_nodes(Head(todo)))

walk(tree) == walk_todo(<<tree>>)

\* Mutant: the alias of a plain import where it has one
node_names_asname(node) ==
    IF node.type = "Import"
    THEN [k \in 1..Len(node.names) |->
             IF node.names[k].asname # None THEN node.names[k].asname
             ELSE node.names[k].name]
    ELSE IF node.type = "ImportFrom" /\ node.module # None
    THEN <<node.module>>
    ELSE <<>>

\* the names a node contributes (lines 56-61); <<>> stands for `continue`
node_names(node) ==
    IF node.type = "Import"
    THEN [k \in 1..Len(node.names) |-> node.names[k].name]
    ELSE IF node.type = "ImportFrom" /\ node.module # None
    THEN <<node.module>>
    ELSE <<>>

\* Mutant: no standard-library test
RECURSIVE add_names_unfiltered(_, _, _, _)
add_names_unfiltered(names, third_party, std, index) ==
    IF names = <<>> THEN third_party
    ELSE add_names_unfiltered(
             Tail(names),
             third_party \cup {resolve_distribution(partition_head(Head(names), Dot), index)},
             std, index)

\* the inner loop (lines 63-69) over the names of one node
RECURSIVE add_names(_, _, _, _)
add_names(names, third_party, std, index) ==
    IF names = <<>> THEN third_party
    ELSE LET name == partition_head(Head(names), Dot)
         IN  IF name \in std
             THEN add_names(Tail(names), third_party, std, index)
             ELSE add_names(Tail(names),
                            third_party \cup {resolve_distribution(name, index)},
                            std, index)

\* the outer loop (lines 55-69) over the nodes of the walk
RECURSIVE scan_nodes(_, _, _, _)
scan_nodes(nodes, third_party, std, index) ==
    IF nodes = <<>> THEN third_party
    ELSE scan_nodes(Tail(nodes),
                    add_names(node_names(Head(nodes)), third_party, std, index),
                    std, index)

\* ast.parse(source) succeeds
parses(source) == source.valid

\* Mutant: a file that cannot be scanned is skipped
find_third_party_imports_skipping(d, file_path, std, index) ==
    IF ~(file_path \in DOMAIN d /\ d[file_path].is_file) \/ ~parses(d[file_path].source)
    THEN [raised |-> "", value |-> {}]
    ELSE [raised |-> "",
          value |-> scan_nodes(walk(d[file_path].source.tree), {}, std, index)]

\* find_third_party_imports(file_path) in directory d: the exception raised
\* ("" when none) and the set returned
find_third_party_imports(d, file_path, std, index) ==
    IF ~(file_path \in DOMAIN d /\ d[file_path].is_file)
    THEN [raised |-> "FileNotFoundError", value |-> {}]
    ELSE IF ~parses(d[file_path].source)
    THEN [raised |-> "SyntaxError", value |-> {}]
    ELSE [raised |-> "",
          value |-> scan_nodes(walk(d[file_path].source.tree), {}, std, index)]

---------------------------------------------------------------------------
(* write_requirements and the manifest file *)

Absent == [exists |-> FALSE, text |-> <<>>]

\* the text written by the loop of lines 84-85
RECURSIVE write_lines(_)
write_lines(modules) ==
    IF modules = <<>> THEN <<>>
    ELSE Head(modules) \o <<LF>> \o write_lines(Tail(modules))

\* write_requirements(non_std_modules): the file afterwards, given the file before
write_requirements(modules, old) ==
    IF modules = {} THEN old
    ELSE [exists |-> TRUE, text |-> write_lines(sorted(modules))]

\* os.path.exists / os.remove of lines 118-119
remove_if_exists(old) == IF old.exists THEN Absent ELSE old

\* Mutant: the script's own files are not excluded
is_candidate_any_python(f) == endswith(f, suffix_py) \/ endswith(f, suffix_pyw)

\* the candidate test of line 100
is_candidate(f) ==
    /\ endswith(f, suffix_py) \/ endswith(f, suffix_pyw)
    /\ f # current_file
    /\ f # excluded_pyw

---------------------------------------------------------------------------
(* format_duration_long *)

\* Python's int is unbounded; a count of nanoseconds is kept here as
\* [sec, nsec] with nsec < NS_PER_S, the value being sec * NS_PER_S + nsec.
\* A unit's factor is [sec, nsec] too: whole seconds, or a divisor of a second.
units == <<
    [name |-> "y",  sec |-> 365 * 24 * 60 * 60, nsec |-> 0],
    [name |-> "mo", sec |-> 30 * 24 * 60 * 60,  nsec |-> 0],
    [name |-> "d",  sec |-> 24 * 60 * 60,       nsec |-> 0],
    [name |-> "h",  sec |-> 60 * 60,            nsec |-> 0],
    [name |-> "m",  sec |-> 60,                 nsec |-> 0],
    [name |-> "s",  sec |-> 1,                  nsec |-> 0],
    [name |-> "ms", sec |-> 0,                  nsec |-> 1000000],
    [name |-> "us", sec |-> 0,                  nsec |-> 1000],
    [name |-> "ns", sec |-> 0,                  nsec |-> 1] >>

\* divmod(ns, factor), exact on the two-limb representation
divmod(ns, factor) ==
    IF factor.sec > 0
    THEN [value |-> ns.sec \div factor.sec,
          rest  |-> [sec |-> ns.sec % factor.sec, nsec |-> ns.nsec]]
    ELSE [value |-> ns.sec * (NS_PER_S \div factor.nsec) + ns.nsec \div factor.nsec,
          rest  |-> [sec |-> 0, nsec |-> ns.nsec % factor.nsec]]

\* int(duration_seconds * 1_000_000_000) for a non-negative duration given as
\* whole nanoseconds plus a fraction of a nanosecond: the fraction is dropped
int_ns(duration) == [sec |-> duration.sec, nsec |-> duration.nsec]

\* the loop of lines 147-152
RECURSIVE duration_loop(_, _, _)
duration_loop(us, ns, parts) ==
    IF us = <<>> THEN parts
    ELSE LET dm == divmod(ns, Head(us))
             parts2 == IF dm.value # 0
                       THEN Append(parts, [value |-> dm.value, name |-> Head(us).name])
                       ELSE parts
         IN  IF Len(parts2) = MAX_PARTS
             THEN parts2
             ELSE duration_loop(Tail(us), dm.rest, parts2)

\* the result as the sequence of its parts, each f"{value}{name}"
format_duration_long(duration) ==
    LET parts == duration_loop(units, int_ns(duration), <<>>)
    IN  IF parts = <<>> THEN <<[value |-> 0, name |-> "s"]>> ELSE parts

---------------------------------------------------------------------------
(* The environment of the driver: sample sources, directory entries, indexes *)

\* import os.path as x; from sys import x
SrcStd == [valid |-> TRUE, tree |-> Module(<<
    Import(<<Alias(s_os_path, s_x)>>),
    ImportFrom(s_sys, <<Alias(s_x, None)>>, 0) >>)]

\* import yaml; if ...: from os.path import x
SrcYaml == [valid |-> TRUE, tree |-> Module(<<
    Import(<<Alias(s_yaml, None)>>),
    Block(<<ImportFrom(s_os_path, <<Alias(s_x, None)>>, 0)>>) >>)]

\* if ...: import numpy.linalg as la, os; from . import yaml
SrcNumpy == [valid |-> TRUE, tree |-> Module(<<
    Block(<<Import(<<Alias(s_numpy_linalg, s_la), Alias(s_os, None)>>)>>),
    ImportFrom(None, <<Alias(s_yaml, None)>>, 1) >>)]

\* text that ast.parse rejects
SrcBad == [valid |-> FALSE, tree |-> Module(<<>>)]

Sources == {SrcStd, SrcYaml, SrcNumpy, SrcBad}

\* a regular file with some content, or a directory of that name
Entries == {[is_file |-> TRUE, source |-> s] : s \in Sources}
               \cup {[is_file |-> FALSE, source |-> SrcBad]}

FileNames == {f_a_py, f_b_pyw, f_a_pyc, f_notes_txt, current_file, excluded_pyw}

EmptyDir == [f \in {} |-> [is_file |-> FALSE, source |-> SrcBad]]

NoIndex == [k \in {} |-> <<>>]
InstalledIndex == (s_yaml :> <<s_PyYAML>>) @@ (s_numpy :> <<s_numpy>>)

StaleManifest == [exists |-> TRUE, text |-> s_zzz \o <<LF>> \o s_a \o <<LF>>]

\* os.listdir("."): the names, in any order
Orders(S) ==
    {q \in [1..Cardinality(S) -> S] : \A i, j \in 1..Cardinality(S) : i # j => q[i] # q[j]}

listdir(d) == Orders(DOMAIN d)

\* the list comprehension of lines 98-101 applied to one listing
RECURSIVE select_candidates(_)
select_candidates(listing) ==
    IF listing = <<>> THEN <<>>
    ELSE IF is_candidate(Head(listing))
         THEN <<Head(listing)>> \o select_candidates(Tail(listing))
         ELSE select_candidates(Tail(listing))

---------------------------------------------------------------------------
(* The process: bootstrap() running main() *)

NoProbe == [fn |-> "none"]

TryBody == {"boot", "setup_file", "setup_console", "main_list", "main_scan",
            "main_decide", "main_done"}

Init ==
    /\ dir = EmptyDir
    /\ manifest = Absent
    /\ stdlib = {s_os, s_sys}
    /\ import_to_dist \in {NoIndex, InstalledIndex}
    /\ pc = "idle"
    /\ python_files = <<>>
    /\ scan_i = 1
    /\ non_std_modules = {}
    /\ exit_code = EXIT_SUCCESS
    /\ handlers = <<>>
    /\ open_handlers = {}
    /\ cause = "none"
    /\ manifest0 = Absent
    /\ repeat = FALSE
    /\ settled = FALSE
    /\ prev_files = <<>>
    /\ probe = NoProbe

env_vars == <<stdlib, import_to_dist, probe>>
run_vars == <<python_files, scan_i, non_std_modules, exit_code, handlers,
              open_handlers, cause, manifest0, repeat>>

\* Between two runs the user creates or replaces a directory entry
PutEntry ==
    /\ pc = "idle"
    /\ \E f \in FileNames, e \in Entries :
        /\ Cardinality(DOMAIN dir \cup {f}) <= MaxFiles
        /\ ~(f \in DOMAIN dir /\ dir[f] = e)
        /\ dir' = [g \in DOMAIN dir \cup {f} |-> IF g = f THEN e ELSE dir[g]]
    /\ settled' = FALSE
    /\ prev_files' = <<>>
    /\ UNCHANGED <<manifest, pc, env_vars, run_vars>>

\* ... or removes one
RemoveEntry ==
    /\ pc = "idle"
    /\ \E f \in DOMAIN dir :
        dir' = [g \in DOMAIN dir \ {f} |-> dir[g]]
    /\ settled' = FALSE
    /\ prev_files' = <<>>
    /\ UNCHANGED <<manifest, pc, env_vars, run_vars>>

\* ... or edits or deletes requirements.txt by hand
EditManifest ==
    /\ pc = "idle"
    /\ \E m \in {Absent, StaleManifest} :
        /\ m # manifest
        /\ manifest' = m
    /\ settled' = FALSE
    /\ prev_files' = <<>>
    /\ UNCHANGED <<dir, pc, env_vars, run_vars>>

\* line 233
Start ==
    /\ pc = "idle"
    /\ pc' = "boot"
    /\ exit_code' = EXIT_SUCCESS
    /\ cause' = "none"
    /\ manifest0' = manifest
    /\ repeat' = settled
    /\ UNCHANGED <<dir, manifest, env_vars, python_files, scan_i, non_std_modules,
                   handlers, open_handlers, settled, prev_files>>

\* lines 235-247
BootMkdir ==
    /\ pc = "boot"
    /\ pc' = "setup_file"
    /\ UNCHANGED <<dir, manifest, env_vars, run_vars, settled, prev_files>>

\* lines 203-216: the handlers are cleared, the log file is opened
AddFileHandler ==
    /\ pc = "setup_file"
    /\ handlers' = <<"file">>
    /\ open_handlers' = {"file"}
    /\ pc' = "setup_console"
    /\ UNCHANGED <<dir, manifest, env_vars, python_files, scan_i, non_std_modules,
                   exit_code, cause, manifest0, repeat, settled, prev_files>>

\* lines 219-225, 259-260
AddConsoleHandler ==
    /\ pc = "setup_console"
    /\ handlers' = Append(handlers, "console")
    /\ open_handlers' = open_handlers \cup {"console"}
    /\ pc' = "main_list"
    /\ UNCHANGED <<dir, manifest, env_vars, python_files, scan_i, non_std_modules,
                   exit_code, cause, manifest0, repeat, settled, prev_files>>

\* mkdir (lines 243, 205) or opening the log file (line 213) raises OSError
SetupFails ==
    /\ pc \in {"boot", "setup_file"}
    /\ cause' = "error"
    /\ pc' = "except_exception"
    /\ UNCHANGED <<dir, manifest, env_vars, python_files, scan_i, non_std_modules,
                   exit_code, handlers, open_handlers, manifest0, repeat, settled, prev_files>>

\* Ctrl-C anywhere in the try block
KeyboardInterrupt ==
    /\ pc \in TryBody
    /\ cause' = "interrupt"
    /\ pc' = "except_keyboard"
    /\ UNCHANGED <<dir, manifest, env_vars, python_files, scan_i, non_std_modules,
                   exit_code, handlers, open_handlers, manifest0, repeat, settled, prev_files>>

\* lines 93-110
MainList ==
    /\ pc = "main_list"
    /\ \E listing \in listdir(dir) :
        python_files' = select_candidates(listing)
    /\ IF python_files' = <<>>
       THEN pc' = "main_done" /\ UNCHANGED <<non_std_modules, scan_i>>
       ELSE pc' = "main_scan" /\ non_std_modules' = {} /\ scan_i' = 1
    /\ UNCHANGED <<dir, manifest, env_vars, exit_code, handlers, open_handlers,
                   cause, manifest0, repeat, settled, prev_files>>

\* lines 111-114: one iteration of the for loop
MainScan ==
    /\ pc = "main_scan"
    /\ LET r == find_third_party_imports(dir, python_files[scan_i], stdlib, import_to_dist)
       IN  IF r.raised # ""
           THEN /\ cause' = "error"
                /\ pc' = "except_exception"
                /\ UNCHANGED <<non_std_modules, scan_i>>
           ELSE /\ non_std_modules' = non_std_modules \cup r.value
                /\ scan_i' = scan_i + 1
                /\ pc' = IF scan_i = Len(python_files) THEN "main_decide" ELSE "main_scan"
                /\ cause' = cause
    /\ UNCHANGED <<dir, manifest, env_vars, python_files, exit_code, handlers,
                   open_handlers, manifest0, repeat, settled, prev_files>>

\* Mutant: an existing manifest is kept when no module was found
decide_keep_when_empty(modules, old) ==
    IF modules = {} THEN old ELSE write_requirements(modules, old)

\* lines 116-125: the manifest after main's decision, given the one before
decide(modules, old) ==
    IF modules = {} THEN remove_if_exists(old) ELSE write_requirements(modules, old)

MainDecide ==
    /\ pc = "main_decide"
    /\ manifest' = decide(non_std_modules, manifest)
    /\ pc' = "main_done"
    /\ UNCHANGED <<dir, env_vars, run_vars, settled, prev_files>>

\* lines 264-266
MainReturned ==
    /\ pc = "main_done"
    /\ pc' = "finally"
    /\ UNCHANGED <<dir, manifest, env_vars, run_vars, settled, prev_files>>

\* Mutant: an interruption is reported like any other failure
ExceptKeyboardInterrupt_as_failure ==
    /\ pc = "except_keyboard"
    /\ exit_code' = EXIT_FAILURE
    /\ pc' = "finally"
    /\ UNCHANGED <<dir, manifest, env_vars, python_files, scan_i, non_std_modules,
                   handlers, open_handlers, cause, manifest0, repeat, settled, prev_files>>

\* lines 268-270
ExceptKeyboardInterrupt ==
    /\ pc = "except_keyboard"
    /\ exit_code' = EXIT_INTERRUPT
    /\ pc' = "finally"
    /\ UNCHANGED <<dir, manifest, env_vars, python_files, scan_i, non_std_modules,
                   handlers, open_handlers, cause, manifest0, repeat, settled, prev_files>>

\* lines 271-273
ExceptException ==
    /\ pc = "except_exception"
    /\ exit_code' = EXIT_FAILURE
    /\ pc' = "finally"
    /\ UNCHANGED <<dir, manifest, env_vars, python_files, scan_i, non_std_modules,
                   handlers, open_handlers, cause, manifest0, repeat, settled, prev_files>>

\* lines 275-277: the handlers left in logger.handlers after the loop over a
\* copy of it, and those still open
close_handlers(hs, open) ==
    [handlers |-> <<>>, open |-> open \ {hs[k] : k \in 1..Len(hs)}]

Finally ==
    /\ pc = "finally"
    /\ handlers' = close_handlers(handlers, open_handlers).handlers
    /\ open_handlers' = close_handlers(handlers, open_handlers).open
    /\ pc' = "prompt"
    /\ UNCHANGED <<dir, manifest, env_vars, python_files, scan_i, non_std_modules,
                   exit_code, cause, manifest0, repeat, settled, prev_files>>

\* lines 279-281, 285: Enter is pressed, exit_code is the process status
PromptReturns ==
    /\ pc = "prompt"
    /\ pc' = "returned"
    /\ UNCHANGED <<dir, manifest, env_vars, run_vars, settled, prev_files>>

\* line 279: input() raises (EOFError, KeyboardInterrupt) outside the try
PromptRaises ==
    /\ pc = "prompt"
    /\ pc' = "uncaught"
    /\ UNCHANGED <<dir, manifest, env_vars, run_vars, settled, prev_files>>

\* the process is gone; its locals with it
Exit ==
    /\ pc \in {"returned", "uncaught"}
    /\ pc' = "idle"
    /\ settled' = (cause = "none")
    /\ prev_files' = IF cause = "none" THEN python_files ELSE <<>>
    /\ python_files' = <<>>
    /\ scan_i' = 1
    /\ non_std_modules' = {}
    /\ exit_code' = EXIT_SUCCESS
    /\ cause' = "none"
    /\ manifest0' = Absent
    /\ repeat' = FALSE
    /\ UNCHANGED <<dir, manifest, stdlib, import_to_dist, probe, handlers, open_handlers>>

Next ==
    \/ PutEntry \/ RemoveEntry \/ EditManifest
    \/ Start \/ BootMkdir \/ AddFileHandler \/ AddConsoleHandler \/ SetupFails
    \/ KeyboardInterrupt
    \/ MainList \/ MainScan \/ MainDecide \/ MainReturned
    \/ ExceptKeyboardInterrupt \/ ExceptException \/ Finally
    \/ PromptReturns \/ PromptRaises \/ Exit

Spec == Init /\ [][Next]_vars

---------------------------------------------------------------------------
(* Vocabulary of the properties *)

\* the names of FileNames that end in .py or .pyw and are not the script's own
CandidateNames == {f_a_py, f_b_pyw}

Candidates(d) == DOMAIN d \cap CandidateNames

\* main() has returned normally
MainCompleted == pc = "main_done"

\* a scan of this entry raises: it is no regular file, or its text does not parse
ScanFails(e) == ~e.is_file \/ ~e.source.valid

\* what a scan of the whole directory produces
ExpectedModules(d) ==
    UNION {find_third_party_imports(d, f, stdlib, import_to_dist).value : f \in Candidates(d)}

\* the lines of a text, split at each LF (a last line without LF is kept)
RECURSIVE Lines(_)
Lines(t) ==
    IF t = <<>> THEN <<>>
    ELSE IF \E i \in 1..Len(t) : t[i] = LF
    THEN LET i == CHOOSE j \in 1..Len(t) : t[j] = LF /\ \A k \in 1..(j - 1) : t[k] # LF
         IN  <<SubSeq(t, 1, i - 1)>> \o Lines(SubSeq(t, i + 1, Len(t)))
    ELSE <<t>>

Terminated(t) == t = <<>> \/ t[Len(t)] = LF

NamesIn(m) == IF m.exists THEN {Lines(m.text)[k] : k \in 1..Len(Lines(m.text))} ELSE {}

\* a is strictly before b in code point order
Before(a, b) ==
    \/ Len(a) < Len(b) /\ SubSeq(b, 1, Len(a)) = a
    \/ \E i \in 1..Len(a) :
        /\ i <= Len(b)
        /\ SubSeq(a, 1, i - 1) = SubSeq(b, 1, i - 1)
        /\ a[i] < b[i]

---------------------------------------------------------------------------
(* Properties of the driver *)

\* C1 (as stated): after a completed run of main() the manifest holds exactly the
\* names the latest scan of the directory produced, so nothing of earlier
\* contents is retained.
C1_Original ==
    MainCompleted => NamesIn(manifest) = ExpectedModules(dir)

\* C1 (amended): after a completed run of main() that found at least one
\* candidate file, the manifest holds exactly the names that scan produced and
\* nothing retained from before; a run that found no candidate leaves the
\* manifest as it was.
C1_Amended ==
    MainCompleted =>
        IF Candidates(dir) # {}
        THEN NamesIn(manifest) = ExpectedModules(dir)
        ELSE manifest = manifest0

\* a run replaced a manifest that listed numpy by one that lists PyYAML only
C1_Witness ==
    /\ MainCompleted
    /\ s_numpy \in NamesIn(manifest0)
    /\ ExpectedModules(dir) = {s_PyYAML}
    /\ manifest.exists

\* C2: when main() found candidates and every file scanned: with an empty set
\* requirements.txt does not exist afterwards; otherwise it holds exactly the
\* names of the set, each once, ascending, one per line, each line ended by LF.
C2_ManifestContent ==
    MainCompleted /\ Candidates(dir) # {} =>
        /\ non_std_modules = ExpectedModules(dir)
        /\ IF non_std_modules = {}
           THEN ~manifest.exists
           ELSE /\ manifest.exists
                /\ Terminated(manifest.text)
                /\ Len(Lines(manifest.text)) = Cardinality(non_std_modules)
                /\ NamesIn(manifest) = non_std_modules
                /\ \A k \in 1..(Len(Lines(manifest.text)) - 1) :
                       Before(Lines(manifest.text)[k], Lines(manifest.text)[k + 1])

\* two names were written over a manifest that existed before
C2_Witness ==
    /\ MainCompleted
    /\ Len(python_files) = 2
    /\ non_std_modules = {s_PyYAML, s_numpy}
    /\ manifest0 = StaleManifest
    /\ manifest.text = s_PyYAML \o <<LF>> \o s_numpy \o <<LF>>

\* C3: with no candidate file in the working directory main() goes from the
\* listing straight to its return (it scans nothing, decides nothing, raises
\* nothing) and requirements.txt stays as it was when the run started.
C3_NoCandidates ==
    pc # "idle" /\ Candidates(dir) = {} =>
        /\ manifest = manifest0
        /\ pc \notin {"main_scan", "main_decide"}
        /\ (pc = "returned" /\ cause = "none" => exit_code = EXIT_SUCCESS)

\* the script's own two files are there, with third-party imports, and so is
\* a manifest
C3_Witness ==
    /\ MainCompleted
    /\ DOMAIN dir = {current_file, excluded_pyw}
    /\ dir[current_file].source = SrcYaml
    /\ dir[excluded_pyw].source = SrcNumpy
    /\ manifest = StaleManifest

\* C4: if the scan of any candidate file fails, main() reaches neither its
\* decision nor its return, the run ends with status 1 unless interrupted, and
\* requirements.txt is as it was when the run started; so a write or delete
\* happens only when every candidate scanned.
C4_NoPartialSuccess ==
    pc # "idle" /\ (\E f \in Candidates(dir) : ScanFails(dir[f])) =>
        /\ manifest = manifest0
        /\ pc \notin {"main_decide", "main_done"}
        /\ (pc = "returned" => exit_code # EXIT_SUCCESS)
        /\ (pc = "returned" /\ cause = "error" => exit_code = EXIT_FAILURE)

\* the second file failed after the first had produced names
C4_Witness ==
    /\ pc = "returned"
    /\ cause = "error"
    /\ scan_i = 2
    /\ non_std_modules # {}
    /\ manifest = StaleManifest

C8_Idempotent ==
    MainCompleted /\ repeat => manifest = manifest0

\* the second run listed the two files in the other order
C8_Witness ==
    /\ MainCompleted
    /\ repeat
    /\ Len(python_files) = 2
    /\ python_files # prev_files
    /\ Cardinality(non_std_modules) = 2
    /\ manifest.exists

---------------------------------------------------------------------------
(* The pure functions, applied to inputs drawn from bounded sets *)

\* the driver's variables, at rest
AtRest ==
    /\ dir = EmptyDir
    /\ manifest = Absent
    /\ stdlib = {}
    /\ import_to_dist = NoIndex
    /\ pc = "probe"
    /\ python_files = <<>>
    /\ scan_i = 1
    /\ non_std_modules = {}
    /\ exit_code = EXIT_SUCCESS
    /\ handlers = <<>>
    /\ open_handlers = {}
    /\ cause = "none"
    /\ manifest0 = Absent
    /\ repeat = FALSE
    /\ settled = FALSE
    /\ prev_files = <<>>

driver_vars == <<dir, manifest, stdlib, import_to_dist, pc, python_files, scan_i,
                 non_std_modules, exit_code, handlers, open_handlers, cause,
                 manifest0, repeat, settled, prev_files>>

(* resolve_distribution *)

ResolveNames == {s_yaml, s_numpy, s_os}
Dists == {s_PyYAML, s_numpy, s_yaml, s_os}
CandLists == UNION {[1..n -> Dists] : n \in 0..MaxCands}
ResolveIndexes == UNION {[K -> CandLists] : K \in SUBSET {s_yaml, s_numpy}}

InitResolve ==
    /\ AtRest
    /\ probe \in {[fn |-> "resolve", name |-> n, index |-> ix, done |-> FALSE,
                   result |-> <<>>] : n \in ResolveNames, ix \in ResolveIndexes}

ApplyResolve ==
    /\ probe.fn = "resolve"
    /\ ~probe.done
    /\ probe' = [probe EXCEPT !.done = TRUE,
                              !.result = resolve_distribution(probe.name, probe.index)]
    /\ UNCHANGED driver_vars

SpecResolve == InitResolve /\ [][ApplyResolve]_vars

\* C5: resolve_distribution returns the first candidate of the entry for the
\* name when the entry has a candidate and the first differs from the name;
\* in every other case (no entry, no candidate, first candidate equal to the
\* name) it returns the name; it returns no other candidate.
C5_Resolve ==
    probe.fn = "resolve" /\ probe.done =>
        LET n == probe.name
            ix == probe.index
        IN  IF n \in DOMAIN ix /\ Len(ix[n]) >= 1 /\ ix[n][1] # n
            THEN probe.result = ix[n][1]
            ELSE probe.result = n

\* two candidates, the second being the name itself: the first is returned
C5_Witness ==
    /\ probe.fn = "resolve"
    /\ probe.done
    /\ probe.name = s_yaml
    /\ s_yaml \in DOMAIN probe.index
    /\ probe.index[s_yaml] = <<s_PyYAML, s_yaml>>
    /\ probe.result = s_PyYAML

(* find_third_party_imports *)

\* import a.b.c, yaml as x
StmtImportDotted == Import(<<Alias(s_a_b_c, None), Alias(s_yaml, s_x)>>)
\* import os.path as la
StmtImportOsPath == Import(<<Alias(s_os_path, s_la)>>)
\* from numpy.linalg import x
StmtFromNumpy == ImportFrom(s_numpy_linalg, <<Alias(s_x, None)>>, 0)
\* from . import numpy
StmtFromDot == ImportFrom(None, <<Alias(s_numpy, None)>>, 1)
\* from .a import os
StmtFromRelative == ImportFrom(s_a, <<Alias(s_os, None)>>, 1)

Stmts == {StmtImportDotted, StmtImportOsPath, StmtFromNumpy, StmtFromDot,
          StmtFromRelative, Pass}

\* the statement lists of n statements in all, nested in any way
RECURSIVE Forests(_), TreesOfSize(_)
TreesOfSize(k) == IF k = 1 THEN Stmts ELSE {Block(b) : b \in Forests(k - 1)}
Forests(n) ==
    IF n = 0 THEN {<<>>}
    ELSE UNION {{<<t>> \o f : t \in TreesOfSize(k), f \in Forests(n - k)} : k \in 1..n}

ScanTrees == {Module(b) : b \in UNION {Forests(n) : n \in 0..MaxNodes}}
ScanStdlibs == SUBSET {s_os, s_a, s_yaml}
\* nothing installed; yaml from PyYAML; a distribution named like a
\* standard-library module; an entry without candidates and one with two
ScanIndexes == {NoIndex, InstalledIndex, (s_yaml :> <<s_os>>),
                (s_a :> <<>>) @@ (s_numpy :> <<s_PyYAML, s_numpy>>)}

InitScan ==
    /\ AtRest
    /\ probe \in {[fn |-> "scan", tree |-> t, std |-> sl, index |-> ix,
                   done |-> FALSE, result |-> {}] :
                      t \in ScanTrees, sl \in ScanStdlibs, ix \in ScanIndexes}

ApplyScan ==
    /\ probe.fn = "scan"
    /\ ~probe.done
    /\ LET d == (f_a_py :> [is_file |-> TRUE,
                            source |-> [valid |-> TRUE, tree |-> probe.tree]])
       IN  probe' = [probe EXCEPT
                !.done = TRUE,
                !.result = find_third_party_imports(d, f_a_py, probe.std, probe.index).value]
    /\ UNCHANGED driver_vars

SpecScan == InitScan /\ [][ApplyScan]_vars

\* the statements of a tree, at any nesting level
RECURSIVE Statements(_)
Statements(n) ==
    IF n.type \in {"Module", "If"}
    THEN (IF n.type = "If" THEN {n} ELSE {})
             \cup UNION {Statements(n.body[k]) : k \in 1..Len(n.body)}
    ELSE {n}

\* the dotted names the import statements of a tree contribute: each module
\* of a plain import, the from-target of a from-import that has one
ImportedNames(tree) ==
    UNION {{st.names[k].name : k \in 1..Len(st.names)} :
              st \in {x \in Statements(tree) : x.type = "Import"}}
    \cup {st.module : st \in {x \in Statements(tree) :
                                 x.type = "ImportFrom" /\ x.module # None}}

\* b is the first dot-separated segment of full
IsFirstSegment(b, full) ==
    /\ \A k \in 1..Len(b) : b[k] # Dot
    /\ \/ full = b
       \/ /\ Len(full) > Len(b)
          /\ SubSeq(full, 1, Len(b)) = b
          /\ full[Len(b) + 1] = Dot

\* the first segments of the imported names of a tree
BareNames(tree) ==
    UNION {{b \in {SubSeq(full, 1, k) : k \in 0..Len(full)} : IsFirstSegment(b, full)} :
              full \in ImportedNames(tree)}

\* C6 (as stated): no name of the standard-library set is in the set returned,
\* whatever the index; a file importing only standard-library modules yields
\* the empty set.
C6_Original ==
    probe.fn = "scan" /\ probe.done =>
        /\ probe.result \cap probe.std = {}
        /\ (BareNames(probe.tree) \subseteq probe.std => probe.result = {})

\* C6 (amended): an import whose first segment is in the standard-library set
\* adds nothing: every name returned is the resolution of an imported module
\* that is not in the set, so a file importing only standard-library modules
\* yields the empty set; a returned name is in the set only when the index
\* resolves such a module to a distribution of that name.
C6_Amended ==
    probe.fn = "scan" /\ probe.done =>
        /\ \A r \in probe.result :
               \E b \in BareNames(probe.tree) \ probe.std :
                   r = resolve_distribution(b, probe.index)
        /\ (BareNames(probe.tree) \subseteq probe.std => probe.result = {})
        /\ \A r \in probe.result \cap probe.std :
               \E b \in DOMAIN probe.index :
                   /\ b \notin probe.std
                   /\ probe.index[b] # <<>>
                   /\ probe.index[b][1] = r

\* os.path is skipped next to numpy.linalg, which is kept
C6_Witness ==
    /\ probe.fn = "scan"
    /\ probe.done
    /\ probe.tree = Module(<<StmtImportOsPath, Block(<<StmtFromNumpy>>)>>)
    /\ s_os \in probe.std
    /\ probe.index = InstalledIndex
    /\ probe.result = {s_numpy}

\* C9: the set returned is made of exactly the resolutions of the first
\* segments, outside the standard-library set, of the modules named by the
\* import statements at any nesting level: each module of a plain import (not
\* its alias), the from-target of a from-import that has one; nothing else
\* contributes.
C9_Collected ==
    probe.fn = "scan" /\ probe.done =>
        probe.result = {resolve_distribution(b, probe.index) :
                            b \in BareNames(probe.tree) \ probe.std}

\* `import a.b.c, yaml as x` and `from . import numpy`, both nested: a and yaml
C9_Witness ==
    /\ probe.fn = "scan"
    /\ probe.done
    /\ probe.tree = Module(<<Block(<<StmtImportDotted, StmtFromDot>>)>>)
    /\ probe.std = {}
    /\ probe.index = NoIndex
    /\ probe.result = {s_a, s_yaml}

(* format_duration_long *)

Digits == [1..Len(units) -> 0..MaxDigit]

RECURSIVE SumSec(_, _), SumNsec(_, _)
SumSec(dg, k) == IF k = 0 THEN 0 ELSE dg[k] * units[k].sec + SumSec(dg, k - 1)
SumNsec(dg, k) == IF k = 0 THEN 0 ELSE dg[k] * units[k].nsec + SumNsec(dg, k - 1)

\* a duration: dg[k] of each unit, plus frac tenths of a nanosecond
DurationOf(dg, frac) ==
    [sec |-> SumSec(dg, Len(units)), nsec |-> SumNsec(dg, Len(units)), frac |-> frac]

InitDuration ==
    /\ AtRest
    /\ probe \in {[fn |-> "duration", digits |-> dg, duration |-> DurationOf(dg, fr),
                   done |-> FALSE, result |-> <<>>] : dg \in Digits, fr \in {0, 5}}

ApplyDuration ==
    /\ probe.fn = "duration"
    /\ ~probe.done
    /\ probe' = [probe EXCEPT !.done = TRUE,
                              !.result = format_duration_long(probe.duration)]
    /\ UNCHANGED driver_vars

SpecDuration == InitDuration /\ [][ApplyDuration]_vars

PartNames(result) == {result[k].name : k \in 1..Len(result)}

\* the units of a duration that are not zero, largest first
NonZeroUnits(dg) == {k \in 1..Len(units) : dg[k] # 0}

\* C10: the result shows the two largest non-zero units only, is "0s" for a
\* duration below one nanosecond, and, as the docstring says, shows no
\* microseconds or nanoseconds from 1 second on and no milliseconds from
\* 1 minute on.
C10_Duration ==
    probe.fn = "duration" /\ probe.done =>
        LET dg == probe.digits
            nz == NonZeroUnits(dg)
            shown == {k \in nz : Cardinality({j \in nz : j < k}) < 2}
        IN  /\ nz = {} => probe.result = <<[value |-> 0, name |-> "s"]>>
            /\ nz # {} =>
                 {[value |-> probe.result[k].value, name |-> probe.result[k].name] :
                      k \in 1..Len(probe.result)}
                  = {[value |-> dg[k], name |-> units[k].name] : k \in shown}
            /\ probe.duration.sec >= 1 =>
                 PartNames(probe.result) \cap {"us", "ns"} = {}
            /\ probe.duration.sec >= 60 =>
                 PartNames(probe.result) \cap {"ms"} = {}

\* The first two clauses of C10 alone, which the code satisfies
Duration_TwoLargest ==
    probe.fn = "duration" /\ probe.done =>
        LET dg == probe.digits
            nz == NonZeroUnits(dg)
            shown == {k \in nz : Cardinality({j \in nz : j < k}) < 2}
        IN  IF nz = {}
            THEN probe.result = <<[value |-> 0, name |-> "s"]>>
            ELSE /\ Len(probe.result) = Cardinality(shown)
                 /\ \A k \in shown :
                        \E i \in 1..Len(probe.result) :
                            probe.result[i] = [value |-> dg[k], name |-> units[k].name]

====
